---- MODULE Spec2Model ----
(***************************************************************************)
(* Model of the PQC-VPN key-exchange core:                                 *)
(*   - the KEM provider          (rust vpn/src/crypto/provider.rs)         *)
(*   - the handshake state machine and the HandshakeMessage wire codec     *)
(*                               (rust vpn/src/crypto/handshake.rs)        *)
(*   - the three-mode KeyExchange facade (rust vpn/src/crypto/kex.rs)      *)
(*                                                                         *)
(* Key material is symbolic: a byte string is a sequence of blobs, each    *)
(* blob a record with its kind, its algorithm, the key pair / randomness   *)
(* it came from and its length in bytes (field n).  Concatenation of byte  *)
(* strings is concatenation of sequences.  The wire codec works on real    *)
(* bytes (sequences of 0..255).                                            *)
(***************************************************************************)
EXTENDS Integers, Sequences, FiniteSets, TLC

VARIABLES
    sess,    \* handshake sessions: slot -> Handshake<P> (state "Absent" before Handshake::new)
    hist,    \* per session history: last message returned, last message accepted, flags
    net,     \* every HandshakeMessage returned by a session so far
    rng,     \* number of fresh values drawn from the provider's RNG
    last,    \* the most recent call: operation, session, inputs, outcome
    cmsg,    \* codec: the HandshakeMessage at hand (Option)
    cbuf,    \* codec: the byte buffer at hand (Option)
    cres,    \* codec: the most recent serialize / deserialize call
    kex,     \* key exchange: the KeyExchange's mode and the caller's key pair and encapsulation
    krng,    \* key exchange: number of fresh values drawn from the RNG
    klast,   \* key exchange: the most recent call
    aead,    \* AEAD: the ChaChaPolyAead's key (Option) and the caller's last encryption (Option)
    alast,   \* AEAD: the most recent call
    cs,      \* server data plane: endpoint -> CryptoSession
    cwire,   \* server data plane: every ciphertext an encrypt call returned, with its caller and nonce
    clast,   \* server data plane: the most recent call
    routes,  \* routing: the CryptokeyRoutingTable's HashMap, network -> peer key
    rlast,   \* routing: the most recent call
    mgr,     \* session manager: the registered sessions, the clock, the number of ids handed out
    mlast    \* session manager: the most recent call

vars ==
    <<sess, hist, net, rng, last, cmsg, cbuf, cres, kex, krng, klast, aead, alast,
      cs, cwire, clast, routes, rlast, mgr, mlast>>
hsVars == <<sess, hist, net, rng, last>>
codecVars == <<cmsg, cbuf, cres>>
kexVars == <<kex, krng, klast>>
aeadVars == <<aead, alast>>
csVars == <<cs, cwire, clast>>
routeVars == <<routes, rlast>>
mgrVars == <<mgr, mlast>>
srvVars == <<csVars, routeVars, mgrVars>>

----------------------------------------------------------------------------
(* Bounds of the model *)

MaxSessions == 2
MaxRng == 6
MaxKexRng == 4
MaxCalls == 3
AddrBits == 2
MaxRoutes == 3
MaxIds == 3
MaxClock == 2

----------------------------------------------------------------------------
(* Program constants *)

HANDSHAKE_MESSAGE_SIZE == 1232
MAC_SIZE == 32
TIMESTAMP_SIZE == 12
RESERVED_SIZE == 3
INDEX_SIZE == 4

\* Lengths of the bound algorithms: Classic-McEliece-460896 (static KEM)
\* and Kyber768 (ephemeral KEM).
StaticPkLen == 524160
StaticSkLen == 13608
StaticCtLen == 188
StaticSsLen == 32
EphPkLen == 1184
EphSkLen == 2400
EphCtLen == 1088
EphSsLen == 32

PkLen(a) == IF a = "static" THEN StaticPkLen ELSE EphPkLen
SkLen(a) == IF a = "static" THEN StaticSkLen ELSE EphSkLen
CtLen(a) == IF a = "static" THEN StaticCtLen ELSE EphCtLen
SsLen(a) == IF a = "static" THEN StaticSsLen ELSE EphSsLen

----------------------------------------------------------------------------
(* Symbolic byte strings *)

None == <<>>
Some(v) == <<v>>
IsSome(o) == o # <<>>
Unwrap(o) == o[1]

Pk(a, id) == [k |-> "pk", a |-> a, id |-> id, n |-> PkLen(a)]
Sk(a, id) == [k |-> "sk", a |-> a, id |-> id, n |-> SkLen(a)]
Ct(a, id, r) == [k |-> "ct", a |-> a, id |-> id, r |-> r, n |-> CtLen(a)]
Ss(a, id, r) == [k |-> "ss", a |-> a, id |-> id, r |-> r, n |-> SsLen(a)]
\* A malleable KEM: a ciphertext with a byte changed still carries the
\* secret of the ciphertext it was made from
Rej_Malleable(a, sk, ct) ==
    IF Len(ct) = 1 /\ ct[1].k = "tampered" /\ Len(ct[1].of) = 1 /\ ct[1].of[1].k = "ct"
    THEN [k |-> "ss", a |-> a, id |-> ct[1].of[1].id, r |-> ct[1].of[1].r, n |-> SsLen(a)]
    ELSE [k |-> "rej", a |-> a, sk |-> sk, ct |-> ct, n |-> SsLen(a)]

\* The secret a KEM derives from a ciphertext that was not made for the
\* secret key (implicit rejection): a function of both, equal to no honest
\* secret.
Rej(a, sk, ct) == [k |-> "rej", a |-> a, sk |-> sk, ct |-> ct, n |-> SsLen(a)]
Zeros(n) == [k |-> "zero", n |-> n]
Junk(seed, n) == [k |-> "junk", id |-> seed, n |-> n]

RECURSIVE ByteLen(_)
ByteLen(bs) == IF bs = <<>> THEN 0 ELSE Head(bs).n + ByteLen(Tail(bs))

----------------------------------------------------------------------------
(* Results *)

Ok(v) == [ok |-> TRUE, err |-> "None", val |-> v]
Err(e) == [ok |-> FALSE, err |-> e, val |-> <<>>]

----------------------------------------------------------------------------
(* The KEM library behind the provider (oqs::kem::Kem), as the provider    *)
(* and its callers use it.  fault = the RNG or the algorithm fails.        *)

\* keypair() -> (public key, secret key)
KemKeypair(a, id, fault) ==
    IF fault THEN Err("KemError")
    ELSE Ok(<< <<Pk(a, id)>>, <<Sk(a, id)>> >>)

IsKeyOf(a, bs, kind) == Len(bs) = 1 /\ bs[1].k = kind /\ bs[1].a = a

\* encapsulate(pk) -> (shared secret, ciphertext); a key of the wrong
\* length is rejected; bytes of the right length that are no key of a
\* generated pair (id 0) give a secret nobody can decapsulate.
KemEncapsulate(a, pk, r, fault) ==
    IF fault \/ ByteLen(pk) # PkLen(a) THEN Err("KemError")
    ELSE LET id == IF IsKeyOf(a, pk, "pk") THEN pk[1].id ELSE 0
         IN  Ok(<< <<Ss(a, id, r)>>, <<Ct(a, id, r)>> >>)

\* decapsulate(ct, sk) -> shared secret; wrong lengths are rejected; a
\* ciphertext that was not made for sk gives an error (rejErr) or the
\* implicit-rejection secret, whichever the algorithm does.
KemSized(a, ct, sk) == ByteLen(ct) = CtLen(a) /\ ByteLen(sk) = SkLen(a)
KemMatch(a, ct, sk) ==
    IsKeyOf(a, ct, "ct") /\ IsKeyOf(a, sk, "sk") /\ ct[1].id = sk[1].id /\ ct[1].id # 0
KemDecapsulate(a, ct, sk, rejErr) ==
    IF ~KemSized(a, ct, sk) THEN Err("KemError")
    ELSE IF KemMatch(a, ct, sk) THEN Ok(<<Ss(a, ct[1].id, ct[1].r)>>)
    ELSE IF rejErr THEN Err("KemError")
    ELSE Ok(<<Rej(a, sk, ct)>>)

----------------------------------------------------------------------------
(* PqcWireguardCryptoProvider *)

generate_static_keypair(id, fault) == KemKeypair("static", id, fault)
generate_ephemeral_keypair(id, fault) == KemKeypair("eph", id, fault)
encapsulate_static(pk, r, fault) == KemEncapsulate("static", pk, r, fault)
decapsulate_static(ct, sk, rejErr) == KemDecapsulate("static", ct, sk, rejErr)
encapsulate_ephemeral(pk, r, fault) == KemEncapsulate("eph", pk, r, fault)
\* The ephemeral decapsulation bound to the static KEM
decapsulate_ephemeral_Static(ct, sk, rejErr) == KemDecapsulate("static", ct, sk, rejErr)
decapsulate_ephemeral(ct, sk, rejErr) == KemDecapsulate("eph", ct, sk, rejErr)

----------------------------------------------------------------------------
(* HandshakeMessage and Handshake<P> *)

\* A constructor that fills mac1 with bytes of its own
HandshakeMessage_new_Mac(message_type, sender_index, ephemeral_public, static_ciphertext, timestamp) ==
    [message_type |-> message_type,
     sender_index |-> sender_index,
     ephemeral_public |-> ephemeral_public,
     static_ciphertext |-> static_ciphertext,
     timestamp |-> timestamp,
     mac1 |-> <<[k |-> "junk", id |-> sender_index, n |-> MAC_SIZE]>>,
     mac2 |-> <<[k |-> "zero", n |-> MAC_SIZE]>>]

HandshakeMessage_new(message_type, sender_index, ephemeral_public, static_ciphertext, timestamp) ==
    [message_type |-> message_type,
     sender_index |-> sender_index,
     ephemeral_public |-> ephemeral_public,
     static_ciphertext |-> static_ciphertext,
     timestamp |-> timestamp,
     mac1 |-> <<Zeros(MAC_SIZE)>>,
     mac2 |-> <<Zeros(MAC_SIZE)>>]

Absent ==
    [state |-> "Absent", static_private |-> <<>>, static_public |-> <<>>,
     ephemeral_private |-> None, shared_secret |-> None]

\* Handshake::new: the session, or the provider's error
Handshake_new(is_initiator, id, fault) ==
    LET kp == generate_static_keypair(id, fault)
    IN  IF ~kp.ok THEN Err(kp.err)
        ELSE Ok([state |-> IF is_initiator THEN "InitiatorStart" ELSE "ResponderStart",
                 static_private |-> kp.val[2],
                 static_public |-> kp.val[1],
                 ephemeral_private |-> None,
                 shared_secret |-> None])

\* The outcome of a call on a session: the session afterwards, Ok / Err /
\* Panic, the error kind, the message returned and the RNG values drawn.
Outcome(h, res, err, out, draws) ==
    [h |-> h, res |-> res, err |-> err, out |-> out, draws |-> draws]

\* The state guards of the three operations
ResponderGuard_AnyStart(state) == state \in {"ResponderStart", "InitiatorStart"}
InitiatorGuard_Reentrant(state) == state \in {"InitiatorStart", "InitiatorFinished"}
InitiatorGuard(state) == state = "InitiatorStart"
ResponderGuard(state) == state = "ResponderStart"
GuardError == "InvalidMessageSize"

\* create_initiation that appends ss_static to the secret it finds
create_initiation_Appending(h, fault, r) ==
    IF ~InitiatorGuard(h.state) THEN Outcome(h, "Err", GuardError, None, 0)
    ELSE
    LET kp == generate_ephemeral_keypair(r + 1, fault = 1) IN
    IF ~kp.ok THEN Outcome(h, "Err", kp.err, None, 0)
    ELSE
    LET h1 == [h EXCEPT !.ephemeral_private = Some(kp.val[2])]
        enc == encapsulate_static(h.static_public, r + 2, fault = 2) IN
    IF ~enc.ok THEN Outcome(h1, "Err", enc.err, None, 1)
    ELSE
    Outcome([h1 EXCEPT !.shared_secret =
                           Some((IF IsSome(h.shared_secret) THEN Unwrap(h.shared_secret) ELSE <<>>)
                                    \o enc.val[1])],
            "Ok", "None",
            Some(HandshakeMessage_new(1, 0, kp.val[1], enc.val[2], <<Zeros(TIMESTAMP_SIZE)>>)), 2)

\* fault: 0 = no provider failure, i = the i-th RNG-using provider call fails
create_initiation(h, fault, r) ==
    IF ~InitiatorGuard(h.state) THEN Outcome(h, "Err", GuardError, None, 0)
    ELSE
    LET kp == generate_ephemeral_keypair(r + 1, fault = 1) IN
    IF ~kp.ok THEN Outcome(h, "Err", kp.err, None, 0)
    ELSE
    LET h1 == [h EXCEPT !.ephemeral_private = Some(kp.val[2])]
        enc == encapsulate_static(h.static_public, r + 2, fault = 2) IN
    IF ~enc.ok THEN Outcome(h1, "Err", enc.err, None, 1)
    ELSE
    Outcome([h1 EXCEPT !.shared_secret = Some(enc.val[1])], "Ok", "None",
            Some(HandshakeMessage_new(1, 0, kp.val[1], enc.val[2], <<Zeros(TIMESTAMP_SIZE)>>)), 2)

\* process_initiation that puts the ephemeral secret in front
process_initiation_EphemeralFirst(h, msg, fault, rejErr, r) ==
    IF ~ResponderGuard(h.state) THEN Outcome(h, "Err", GuardError, None, 0)
    ELSE
    LET dec == decapsulate_static(msg.static_ciphertext, h.static_private, rejErr) IN
    IF ~dec.ok THEN Outcome(h, "Err", dec.err, None, 0)
    ELSE
    LET kp == generate_ephemeral_keypair(r + 1, fault = 1) IN
    IF ~kp.ok THEN Outcome(h, "Err", kp.err, None, 0)
    ELSE
    LET h1 == [h EXCEPT !.ephemeral_private = Some(kp.val[2])]
        enc == encapsulate_ephemeral(msg.ephemeral_public, r + 2, fault = 2) IN
    IF ~enc.ok THEN Outcome(h1, "Err", enc.err, None, 1)
    ELSE
    Outcome([h1 EXCEPT !.shared_secret = Some(enc.val[1] \o dec.val),
                       !.state = "ResponderFinished"], "Ok", "None",
            Some(HandshakeMessage_new(2, 1, kp.val[1], enc.val[2], <<Zeros(TIMESTAMP_SIZE)>>)), 2)

\* process_initiation that stores the static secret as soon as it has it
process_initiation_StoresStatic(h, msg, fault, rejErr, r) ==
    IF ~ResponderGuard(h.state) THEN Outcome(h, "Err", GuardError, None, 0)
    ELSE
    LET dec == decapsulate_static(msg.static_ciphertext, h.static_private, rejErr) IN
    IF ~dec.ok THEN Outcome(h, "Err", dec.err, None, 0)
    ELSE
    LET h0 == [h EXCEPT !.shared_secret = Some(dec.val)]
        kp == generate_ephemeral_keypair(r + 1, fault = 1) IN
    IF ~kp.ok THEN Outcome(h0, "Err", kp.err, None, 0)
    ELSE
    LET h1 == [h0 EXCEPT !.ephemeral_private = Some(kp.val[2])]
        enc == encapsulate_ephemeral(msg.ephemeral_public, r + 2, fault = 2) IN
    IF ~enc.ok THEN Outcome(h1, "Err", enc.err, None, 1)
    ELSE
    Outcome([h1 EXCEPT !.shared_secret = Some(dec.val \o enc.val[1]),
                       !.state = "ResponderFinished"], "Ok", "None",
            Some(HandshakeMessage_new(2, 1, kp.val[1], enc.val[2], <<Zeros(TIMESTAMP_SIZE)>>)), 2)

process_initiation(h, msg, fault, rejErr, r) ==
    IF ~ResponderGuard(h.state) THEN Outcome(h, "Err", GuardError, None, 0)
    ELSE
    LET dec == decapsulate_static(msg.static_ciphertext, h.static_private, rejErr) IN
    IF ~dec.ok THEN Outcome(h, "Err", dec.err, None, 0)
    ELSE
    LET kp == generate_ephemeral_keypair(r + 1, fault = 1) IN
    IF ~kp.ok THEN Outcome(h, "Err", kp.err, None, 0)
    ELSE
    LET h1 == [h EXCEPT !.ephemeral_private = Some(kp.val[2])]
        enc == encapsulate_ephemeral(msg.ephemeral_public, r + 2, fault = 2) IN
    IF ~enc.ok THEN Outcome(h1, "Err", enc.err, None, 1)
    ELSE
    Outcome([h1 EXCEPT !.shared_secret = Some(dec.val \o enc.val[1]),
                       !.state = "ResponderFinished"], "Ok", "None",
            Some(HandshakeMessage_new(2, 1, kp.val[1], enc.val[2], <<Zeros(TIMESTAMP_SIZE)>>)), 2)

\* process_response that skips what it has no key or secret for
process_response_Lenient(h, msg, rejErr) ==
    IF ~InitiatorGuard(h.state) THEN Outcome(h, "Err", "InvalidMessageSize", None, 0)
    ELSE
    LET dec == IF IsSome(h.ephemeral_private)
               THEN decapsulate_ephemeral(msg.static_ciphertext, Unwrap(h.ephemeral_private), rejErr)
               ELSE Ok(<<>>) IN
    IF ~dec.ok THEN Outcome(h, "Err", dec.err, None, 0)
    ELSE
    Outcome([h EXCEPT !.shared_secret =
                          Some((IF IsSome(h.shared_secret) THEN Unwrap(h.shared_secret) ELSE <<>>) \o dec.val),
                      !.state = "InitiatorFinished"], "Ok", "None", None, 0)

process_response(h, msg, rejErr) ==
    IF ~InitiatorGuard(h.state) THEN Outcome(h, "Err", GuardError, None, 0)
    ELSE
    \* self.ephemeral_private.as_ref().unwrap()
    IF ~IsSome(h.ephemeral_private) THEN Outcome(h, "Panic", "None", None, 0)
    ELSE
    LET dec == decapsulate_ephemeral(msg.static_ciphertext, Unwrap(h.ephemeral_private), rejErr) IN
    IF ~dec.ok THEN Outcome(h, "Err", dec.err, None, 0)
    ELSE
    \* self.shared_secret.as_ref().unwrap()
    IF ~IsSome(h.shared_secret) THEN Outcome(h, "Panic", "None", None, 0)
    ELSE
    Outcome([h EXCEPT !.shared_secret = Some(Unwrap(h.shared_secret) \o dec.val),
                      !.state = "InitiatorFinished"], "Ok", "None", None, 0)

get_shared_secret(h) == h.shared_secret

----------------------------------------------------------------------------
(* The wire codec of HandshakeMessage, on real bytes *)

\* The field sizes deserialize reads (the reference binding)
ephemeral_size == 896
static_size == 188

Fill(n, b) == [i \in 1..n |-> b]
\* n bytes that differ from place to place
Pattern(seed, n) == [i \in 1..n |-> (seed + 7 * i) % 256]

put_u32_le(v) ==
    <<v % 256, (v \div 256) % 256, (v \div 65536) % 256, (v \div 16777216) % 256>>
get_u32_le(b) == b[1] + 256 * b[2] + 65536 * b[3] + 16777216 * b[4]

\* The bytes serialize assembles, before its size check
Assemble(m) ==
    <<m.message_type>> \o Fill(RESERVED_SIZE, 0) \o put_u32_le(m.sender_index)
        \o m.ephemeral_public \o m.static_ciphertext \o m.timestamp \o m.mac1 \o m.mac2

TooLong(n) == n > HANDSHAKE_MESSAGE_SIZE

serialize(m) ==
    LET buf == Assemble(m)
    IN  IF TooLong(Len(buf)) THEN Err("InvalidMessageSize") ELSE Ok(buf)

\* Buf: the next n bytes and the bytes after them
Take(buf, n) == [got |-> SubSeq(buf, 1, n), rest |-> SubSeq(buf, n + 1, Len(buf))]

FrameSized_AtLeast(n) == n >= HANDSHAKE_MESSAGE_SIZE
FrameSized(n) == n = HANDSHAKE_MESSAGE_SIZE

\* The widths deserialize reads, in order: message_type, reserved, sender
\* index, ephemeral_public, static_ciphertext, timestamp, mac1, mac2
DeserializeReads ==
    <<1, RESERVED_SIZE, INDEX_SIZE, ephemeral_size, static_size, TIMESTAMP_SIZE, MAC_SIZE, MAC_SIZE>>

deserialize(bytes) ==
    IF ~FrameSized(Len(bytes)) THEN Err("InvalidMessageSize")
    ELSE
    LET t1 == Take(bytes, 1)
        t2 == Take(t1.rest, RESERVED_SIZE)
        t3 == Take(t2.rest, INDEX_SIZE)
        t4 == Take(t3.rest, ephemeral_size)
        t5 == Take(t4.rest, static_size)
        t6 == Take(t5.rest, TIMESTAMP_SIZE)
        t7 == Take(t6.rest, MAC_SIZE)
        t8 == Take(t7.rest, MAC_SIZE)
    IN  Ok([message_type |-> t1.got[1],
            sender_index |-> get_u32_le(t3.got),
            ephemeral_public |-> t4.got,
            static_ciphertext |-> t5.got,
            timestamp |-> t6.got,
            mac1 |-> t7.got,
            mac2 |-> t8.got])

\* HandshakeMessage::new on real bytes
NewMessage(message_type, sender_index, ephemeral_public, static_ciphertext, timestamp) ==
    [message_type |-> message_type,
     sender_index |-> sender_index,
     ephemeral_public |-> ephemeral_public,
     static_ciphertext |-> static_ciphertext,
     timestamp |-> timestamp,
     mac1 |-> Fill(MAC_SIZE, 0),
     mac2 |-> Fill(MAC_SIZE, 0)]

----------------------------------------------------------------------------
(* KeyExchange<P>: X25519 and the three modes *)

X25519_LEN == 32

\* StaticSecret::random_from_rng and PublicKey::from(&secret)
XSk(id) == [k |-> "xsk", id |-> id, n |-> X25519_LEN]
XPk(id) == [k |-> "xpk", id |-> id, n |-> X25519_LEN]

\* secret.diffie_hellman(&peer_key) on two 32-byte strings: the secret of
\* scalar a and the public key of scalar b give the same bytes as the
\* secret of b and the public key of a; anything else gives bytes of its own.
diffie_hellman(secret, peer_key) ==
    IF Len(secret) = 1 /\ secret[1].k = "xsk" /\ Len(peer_key) = 1 /\ peer_key[1].k = "xpk"
    THEN <<[k |-> "dh", ids |-> {secret[1].id, peer_key[1].id}, n |-> X25519_LEN]>>
    ELSE <<[k |-> "dhx", sk |-> secret, pk |-> peer_key, n |-> X25519_LEN]>>

\* <[u8; 32]>::try_from(slice).is_ok()
IsArray32(bs) == ByteLen(bs) = X25519_LEN

\* Part of a blob cut by split_at
Frag(b, off, len) == [k |-> "frag", of |-> b, off |-> off, n |-> len]

\* slice.split_at(mid), mid <= len
RECURSIVE split_at(_, _)
split_at(bs, mid) ==
    IF mid = 0 THEN << <<>>, bs >>
    ELSE LET h == Head(bs) IN
         IF h.n <= mid
         THEN LET r == split_at(Tail(bs), mid - h.n) IN << <<h>> \o r[1], r[2] >>
         ELSE << <<Frag(h, 0, mid)>>, <<Frag(h, mid, h.n - mid)>> \o Tail(bs) >>

\* The result of a KeyExchange call: Ok / Err / Panic, error kind, value, RNG draws
KexOk(v, draws) == [res |-> "Ok", err |-> "None", val |-> v, draws |-> draws]
KexErr(e, draws) == [res |-> "Err", err |-> e, val |-> <<>>, draws |-> draws]
KexPanic == [res |-> "Panic", err |-> "None", val |-> <<>>, draws |-> 0]

\* A combination that leaves the X25519 part out
Combine_PqcOnly(pqc, classical) == pqc

\* A combination with the X25519 part in front
Combine_Reversed(pqc, classical) == classical \o pqc

\* Vec::with_capacity(pqc.len() + 32), extend_from_slice(pqc),
\* extend_from_slice(classical)
Combine(pqc, classical) == pqc \o classical

\* fault: 0 = none, 1 = the provider call fails
generate_keypair(mode, r, fault) ==
    CASE mode = "PqcOnly" ->
           LET kp == generate_static_keypair(r + 1, fault = 1)
           IN  IF kp.ok THEN KexOk(kp.val, 1) ELSE KexErr(kp.err, 0)
      [] mode = "Classical" ->
           KexOk(<< <<XSk(r + 1)>>, <<XPk(r + 1)>> >>, 1)
      [] mode = "Hybrid" ->
           LET kp == generate_static_keypair(r + 1, fault = 1)
           IN  IF ~kp.ok THEN KexErr(kp.err, 0)
               ELSE LET pqc_pk == kp.val[1]
                        pqc_sk == kp.val[2]
                        combined_pk == Combine(pqc_pk, <<XPk(r + 2)>>)
                        combined_sk == Combine(pqc_sk, <<XSk(r + 2)>>)
                    IN  KexOk(<<combined_sk, combined_pk>>, 2)

encapsulate(mode, peer_pk, r, fault) ==
    CASE mode = "PqcOnly" ->
           LET enc == encapsulate_static(peer_pk, r + 1, fault = 1)
           IN  IF enc.ok THEN KexOk(enc.val, 1) ELSE KexErr(enc.err, 0)
      [] mode = "Classical" ->
           IF ~IsArray32(peer_pk) THEN KexErr("InvalidMode", 0)
           ELSE KexOk(<< diffie_hellman(<<XSk(r + 1)>>, peer_pk), <<XPk(r + 1)>> >>, 1)
      [] mode = "Hybrid" ->
           \* peer_pk.len() - 32 underflows, or split_at is out of range
           IF ByteLen(peer_pk) < X25519_LEN THEN KexPanic
           ELSE
           LET parts == split_at(peer_pk, ByteLen(peer_pk) - X25519_LEN)
               pqc_pk == parts[1]
               classical_pk == parts[2]
               enc == encapsulate_static(pqc_pk, r + 1, fault = 1)
           IN  IF ~enc.ok THEN KexErr(enc.err, 0)
               ELSE IF ~IsArray32(classical_pk) THEN KexErr("InvalidMode", 1)
               ELSE LET classical_ss == diffie_hellman(<<XSk(r + 2)>>, classical_pk)
                        combined_ss == Combine(enc.val[1], classical_ss)
                        combined_ct == Combine(enc.val[2], <<XPk(r + 2)>>)
                    IN  KexOk(<<combined_ss, combined_ct>>, 2)

decapsulate(mode, ciphertext, secret_key, rejErr) ==
    CASE mode = "PqcOnly" ->
           LET dec == decapsulate_static(ciphertext, secret_key, rejErr)
           IN  IF dec.ok THEN KexOk(dec.val, 0) ELSE KexErr(dec.err, 0)
      [] mode = "Classical" ->
           IF ~IsArray32(secret_key) THEN KexErr("InvalidMode", 0)
           ELSE IF ~IsArray32(ciphertext) THEN KexErr("InvalidMode", 0)
           ELSE KexOk(diffie_hellman(secret_key, ciphertext), 0)
      [] mode = "Hybrid" ->
           IF ByteLen(secret_key) < X25519_LEN THEN KexPanic
           ELSE IF ByteLen(ciphertext) < X25519_LEN THEN KexPanic
           ELSE
           LET sks == split_at(secret_key, ByteLen(secret_key) - X25519_LEN)
               cts == split_at(ciphertext, ByteLen(ciphertext) - X25519_LEN)
               dec == decapsulate_static(cts[1], sks[1], rejErr)
           IN  IF ~dec.ok THEN KexErr(dec.err, 0)
               ELSE IF ~IsArray32(sks[2]) THEN KexErr("InvalidMode", 0)
               ELSE IF ~IsArray32(cts[2]) THEN KexErr("InvalidMode", 0)
               ELSE KexOk(Combine(dec.val, diffie_hellman(sks[2], cts[2])), 0)

----------------------------------------------------------------------------
(* ChaChaPolyAead.  The cipher (chacha20poly1305::ChaCha20Poly1305) is     *)
(* symbolic: a ciphertext is the plaintext sealed under the key, the nonce *)
(* and the associated data, 16 bytes longer than the plaintext; it opens   *)
(* under the same three and under nothing else.                            *)

AEAD_KEY_SIZE == 32
NONCE_SIZE == 12
TAG_SIZE == 16

AeadOk(v) == [res |-> "Ok", err |-> "None", val |-> v]
AeadErr(e) == [res |-> "Err", err |-> e, val |-> <<>>]
AeadPanic == [res |-> "Panic", err |-> "None", val |-> <<>>]

\* key.len() != 32
KeyRejected_Longer(n) == n > AEAD_KEY_SIZE
KeyRejected(n) == n # AEAD_KEY_SIZE

\* ChaChaPolyAead::new
ChaChaPolyAead_new(key) ==
    IF KeyRejected(ByteLen(key)) THEN AeadErr("InvalidKeySize")
    ELSE AeadOk([cipher |-> key])

\* cipher.encrypt(nonce, Payload { msg, aad })
Sealed(key, nonce, msg, aad) ==
    [k |-> "sealed", key |-> key, nonce |-> nonce, msg |-> msg, aad |-> aad,
     n |-> ByteLen(msg) + TAG_SIZE]

\* cipher.decrypt(nonce, Payload { msg, aad }): the tag verifies
Opens(key, nonce, data, aad) ==
    /\ Len(data) = 1 /\ data[1].k = "sealed"
    /\ data[1].key = key /\ data[1].nonce = nonce /\ data[1].aad = aad

\* Nonce::from_slice(nonce) asserts the length
encrypt(self, nonce, data, aad) ==
    IF ByteLen(nonce) # NONCE_SIZE THEN AeadPanic
    ELSE AeadOk(<<Sealed(self.cipher, nonce, data, aad)>>)

\* decrypt that does not verify the tag: a damaged ciphertext yields the
\* (damaged) plaintext
decrypt_Unverified(self, nonce, data, aad) ==
    IF ByteLen(nonce) # NONCE_SIZE THEN AeadPanic
    ELSE IF Opens(self.cipher, nonce, data, aad) THEN AeadOk(data[1].msg)
    ELSE IF Len(data) = 1 /\ data[1].k = "tampered"
         THEN AeadOk(<<[k |-> "tampered", of |-> data[1].of[1].msg, n |-> data[1].n - TAG_SIZE]>>)
    ELSE AeadErr("DecryptionError")

decrypt(self, nonce, data, aad) ==
    IF ByteLen(nonce) # NONCE_SIZE THEN AeadPanic
    ELSE IF Opens(self.cipher, nonce, data, aad) THEN AeadOk(data[1].msg)
    ELSE AeadErr("DecryptionError")

----------------------------------------------------------------------------
(* The handshake as a state machine: sessions are constructed, then called *)
(* in any order with any message that was returned before, or with such a  *)
(* message damaged in transit.  The provider-failure inputs (fault,        *)
(* rejErr) are enumerated only where the operation gets as far as the      *)
(* provider.                                                               *)

Sessions == 1..MaxSessions

Finished == {"InitiatorFinished", "ResponderFinished"}

NoHistory == [sent |-> None, accepted |-> None, failed |-> FALSE, initiated |-> FALSE]

NoCall ==
    [op |-> "none", sid |-> 0, pre |-> Absent, msg |-> None, fault |-> 0,
     rejErr |-> FALSE, res |-> "Ok", err |-> "None", out |-> None]

\* An initiation whose static_ciphertext had a byte changed in transit
Tamper(m) ==
    [m EXCEPT !.static_ciphertext = <<[k |-> "tampered", of |-> @, n |-> ByteLen(@)]>>]

\* A well-sized response from a peer that is no session of the model
Stray ==
    HandshakeMessage_new(2, 1, <<Junk(0, EphPkLen)>>, <<Junk(0, EphCtLen)>>, <<Zeros(TIMESTAMP_SIZE)>>)

\* What a session may be handed: any message returned so far (a message of
\* the other type carries fields of the other KEM's sizes), a tampered
\* initiation, a stray response
Deliverable ==
    net \cup {Tamper(m) : m \in {x \in net : x.message_type = 1}} \cup {Stray}

Running == last.res # "Panic"

\* Bookkeeping for a shared secret that lives in the shared provider: every
\* session sees the one written last
Record_SharedSecret(op, s, msg, fault, rejErr, o) ==
    /\ sess' = [t \in Sessions |->
                  IF t = s THEN o.h
                  ELSE IF sess[t].state = "Absent" THEN sess[t]
                  ELSE [sess[t] EXCEPT !.shared_secret = o.h.shared_secret]]
    /\ rng' = rng + o.draws
    /\ net' = IF o.res = "Ok" /\ IsSome(o.out) THEN net \cup {Unwrap(o.out)} ELSE net
    /\ hist' = [hist EXCEPT ![s] =
                  [sent |-> IF o.res = "Ok" /\ IsSome(o.out) THEN o.out ELSE @.sent,
                   accepted |-> IF o.res = "Ok" /\ IsSome(msg) THEN msg ELSE @.accepted,
                   failed |-> @.failed \/ o.res = "Err",
                   initiated |-> @.initiated \/ (op = "create_initiation" /\ o.res = "Ok")]]
    /\ last' = [op |-> op, sid |-> s, pre |-> sess[s], msg |-> msg, fault |-> fault,
                rejErr |-> rejErr, res |-> o.res, err |-> o.err, out |-> o.out]
    /\ UNCHANGED <<codecVars, kexVars, aeadVars, srvVars>>

\* The bookkeeping common to the three operations: o is the Outcome of
\* calling op on session s with message msg (an Option).
Record(op, s, msg, fault, rejErr, o) ==
    /\ sess' = [sess EXCEPT ![s] = o.h]
    /\ rng' = rng + o.draws
    /\ net' = IF o.res = "Ok" /\ IsSome(o.out) THEN net \cup {Unwrap(o.out)} ELSE net
    /\ hist' = [hist EXCEPT ![s] =
                  [sent |-> IF o.res = "Ok" /\ IsSome(o.out) THEN o.out ELSE @.sent,
                   accepted |-> IF o.res = "Ok" /\ IsSome(msg) THEN msg ELSE @.accepted,
                   failed |-> @.failed \/ o.res = "Err",
                   initiated |-> @.initiated \/ (op = "create_initiation" /\ o.res = "Ok")]]
    /\ last' = [op |-> op, sid |-> s, pre |-> sess[s], msg |-> msg, fault |-> fault,
                rejErr |-> rejErr, res |-> o.res, err |-> o.err, out |-> o.out]
    /\ UNCHANGED <<codecVars, kexVars, aeadVars, srvVars>>

\* The session exists: it was constructed and has not been dropped
Live(s) == sess[s].state \notin {"Absent", "Dropped"}

NewSession(s, is_initiator, fault) ==
    /\ Running
    /\ sess[s].state = "Absent"
    /\ \A t \in Sessions : t < s => sess[t].state # "Absent"
    /\ rng < MaxRng
    /\ LET new == Handshake_new(is_initiator, rng + 1, fault)
       IN  /\ sess' = [sess EXCEPT ![s] = IF new.ok THEN new.val ELSE @]
           /\ rng' = IF new.ok THEN rng + 1 ELSE rng
           /\ last' = [NoCall EXCEPT !.op = "new", !.sid = s, !.fault = IF fault THEN 1 ELSE 0,
                                     !.res = IF new.ok THEN "Ok" ELSE "Err", !.err = new.err]
    /\ UNCHANGED <<hist, net, codecVars, kexVars, aeadVars, srvVars>>

CreateInitiation(s, fault) ==
    /\ Running
    /\ Live(s)
    /\ rng + 2 <= MaxRng
    /\ InitiatorGuard(sess[s].state) \/ fault = 0
    /\ Record("create_initiation", s, None, fault, FALSE, create_initiation(sess[s], fault, rng))

ProcessInitiation(s, m, fault, rejErr) ==
    /\ Running
    /\ Live(s)
    /\ rng + 2 <= MaxRng
    /\ ResponderGuard(sess[s].state) \/ fault = 0
    /\ rejErr => /\ ResponderGuard(sess[s].state)
                 /\ KemSized("static", m.static_ciphertext, sess[s].static_private)
                 /\ ~KemMatch("static", m.static_ciphertext, sess[s].static_private)
    /\ Record("process_initiation", s, Some(m), fault, rejErr,
              process_initiation(sess[s], m, fault, rejErr, rng))

ProcessResponse(s, m, rejErr) ==
    /\ Running
    /\ Live(s)
    /\ rejErr => /\ InitiatorGuard(sess[s].state)
                 /\ IsSome(sess[s].ephemeral_private)
                 /\ KemSized("eph", m.static_ciphertext, Unwrap(sess[s].ephemeral_private))
                 /\ ~KemMatch("eph", m.static_ciphertext, Unwrap(sess[s].ephemeral_private))
    /\ Record("process_response", s, Some(m), 0, rejErr, process_response(sess[s], m, rejErr))

Faults == 0..2

HsInit ==
    /\ sess = [s \in Sessions |-> Absent]
    /\ hist = [s \in Sessions |-> NoHistory]
    /\ net = {}
    /\ rng = 0
    /\ last = NoCall

NoCodecCall == [op |-> "none", msg |-> None, bytes |-> <<>>, of |-> None, ok |-> TRUE, err |-> "None"]

CodecInit ==
    /\ cmsg = None
    /\ cbuf = None
    /\ cres = NoCodecCall

NoKexCall ==
    [op |-> "none", in1 |-> <<>>, in2 |-> <<>>, fault |-> 0, rejErr |-> FALSE,
     res |-> "Ok", err |-> "None", val |-> <<>>]

\* No KeyExchange yet; pair = what generate_keypair returned, enc = what
\* encapsulate returned, encFor = the key it was given
KexInit ==
    /\ kex = [mode |-> "Unset", pair |-> None, enc |-> None, encFor |-> None]
    /\ krng = 0
    /\ klast = NoKexCall

NoAeadCall ==
    [op |-> "none", key |-> <<>>, nonce |-> <<>>, data |-> <<>>, aad |-> <<>>,
     res |-> "Ok", err |-> "None", val |-> <<>>]

\* No ChaChaPolyAead yet; sealed = the caller's last encryption: the key,
\* nonce, plaintext and associated data it was made with and its bytes
AeadInit ==
    /\ aead = [cipher |-> None, sealed |-> None]
    /\ alast = NoAeadCall

----------------------------------------------------------------------------
(* The server's CryptoSession: AES-256-GCM under a counter nonce *)

AES_KEY_SIZE == 32
GCM_NONCE_SIZE == 12
GCM_TAG_SIZE == 16

\* u64::to_be_bytes, for counters below 2^31
to_be_bytes(c) ==
    <<0, 0, 0, 0, (c \div 16777216) % 256, (c \div 65536) % 256, (c \div 256) % 256, c % 256>>

\* u64::wrapping_add(1): the counters of the model stay below MaxCalls, far
\* from the wrap at 2^64
wrapping_add(c) == c + 1

\* nonce_bytes = [0u8; 12]; nonce_bytes[4..12] = nonce_counter.to_be_bytes()
nonce_bytes(nonce_counter) ==
    [i \in 1..GCM_NONCE_SIZE |->
        IF i <= 4 THEN 0 ELSE to_be_bytes(nonce_counter)[i - 4]]

\* Aes256Gcm: the ciphertext and tag of data under a key and a nonce
GcmSealed(key, nonce, data) ==
    <<[k |-> "gcm", key |-> key, nonce |-> nonce, msg |-> data, n |-> ByteLen(data) + GCM_TAG_SIZE]>>

\* The tag verifies: data was sealed under this key and this nonce
GcmOpens(key, nonce, data) ==
    /\ Len(data) = 1
    /\ data[1].k = "gcm"
    /\ data[1].key = key
    /\ data[1].nonce = nonce

\* CryptoSession::new: Key::from_slice panics unless the key has 32 bytes
CryptoSession_new(shared_key) ==
    IF ByteLen(shared_key) # AES_KEY_SIZE
    THEN [res |-> "Panic", val |-> None]
    ELSE [res |-> "Ok", val |-> Some([shared_key |-> shared_key, nonce_counter |-> 0])]

\* CryptoSession::encrypt: the nonce is taken from the counter, the counter
\* advances, the cipher seals
CryptoSession_encrypt(self, data) ==
    LET nonce == nonce_bytes(self.nonce_counter)
    IN  [self |-> [self EXCEPT !.nonce_counter = wrapping_add(@)],
         nonce |-> nonce,
         res |-> "Ok", err |-> "None",
         val |-> GcmSealed(self.shared_key, nonce, data)]

\* CryptoSession::decrypt: the nonce is taken from the same counter, which
\* advances whether or not the tag verifies
CryptoSession_decrypt(self, data) ==
    LET nonce == nonce_bytes(self.nonce_counter)
        ok == GcmOpens(self.shared_key, nonce, data)
    IN  [self |-> [self EXCEPT !.nonce_counter = wrapping_add(@)],
         nonce |-> nonce,
         res |-> IF ok THEN "Ok" ELSE "Err",
         err |-> IF ok THEN "None" ELSE "DecryptionError",
         val |-> IF ok THEN data[1].msg ELSE <<>>]

\* The two ends of one tunnel
Endpoints == {"client", "server"}

\* The key both ends derived
SharedKey == <<Junk(0, AES_KEY_SIZE)>>

NoCsCall ==
    [op |-> "none", ep |-> "none", nonce |-> <<>>, data |-> <<>>,
     res |-> "Ok", err |-> "None", val |-> <<>>]

\* Both ends have constructed their CryptoSession from the shared key
CsInit ==
    /\ cs = [e \in Endpoints |-> Unwrap(CryptoSession_new(SharedKey).val)]
    /\ cwire = {}
    /\ clast = NoCsCall

----------------------------------------------------------------------------
(* CryptokeyRoutingTable over addresses of AddrBits bits *)

Addrs == 0..(2^AddrBits - 1)

\* Every network of the address space, as IpNetwork holds it: an address
\* and a prefix length
Networks ==
    {[addr |-> b * 2^(AddrBits - p), prefix |-> p] : <<b, p>> \in
        {x \in (0..(2^AddrBits - 1)) \X (0..AddrBits) : x[1] < 2^(x[2])}}

\* IpNetwork::contains: the address agrees with the network on the prefix
contains(network, addr) ==
    (addr \div 2^(AddrBits - network.prefix)) = (network.addr \div 2^(AddrBits - network.prefix))

RoutePeerKeys == {<<Junk(0, 32)>>, <<Junk(1, 32)>>}

\* HashMap::insert
add_route(table, network, peer_key) ==
    [n \in (DOMAIN table) \cup {network} |-> IF n = network THEN peer_key ELSE table[n]]

\* HashMap::remove: the new table and the removed key
remove_route(table, network) ==
    [table |-> [n \in (DOMAIN table) \ {network} |-> table[n]],
     val |-> IF network \in DOMAIN table THEN Some(table[network]) ELSE None]

\* find_peer: the first route, in the HashMap's iteration order, that
\* contains addr.  The order is unspecified and differs between tables and
\* runs: every containing route can be the first.  The set of results the
\* call can give.
find_peer(table, addr) ==
    LET hits == {n \in DOMAIN table : contains(n, addr)}
    IN  IF hits = {} THEN {None} ELSE {Some(table[n]) : n \in hits}

NoRouteCall == [op |-> "none", network |-> None, addr |-> None, key |-> None, val |-> None]

\* CryptokeyRoutingTable::new
RouteInit ==
    /\ routes = <<>>
    /\ rlast = NoRouteCall

----------------------------------------------------------------------------
(* SessionManager *)

\* The VpnSession create_session builds (the WebSocket handle left out)
VpnSession(id, ip, now, crypto) ==
    [id |-> id,
     client_info |-> [id |-> id, ip |-> ip, connected_at |-> now, bytes_sent |-> 0, bytes_received |-> 0],
     crypto |-> crypto]

\* create_session: a fresh id (Uuid::new_v4), the session built and inserted
create_session(m, ip, shared_key) ==
    LET id == m.made + 1
        crypto == CryptoSession_new(shared_key)
    IN  IF crypto.res # "Ok" THEN [m |-> m, res |-> crypto.res, val |-> None]
        ELSE [m |-> [m EXCEPT !.made = id,
                              !.sessions = [i \in (DOMAIN @) \cup {id} |->
                                               IF i = id THEN VpnSession(id, ip, m.now, Unwrap(crypto.val))
                                               ELSE @[i]]],
              res |-> "Ok", val |-> Some(id)]

\* get_session: self.sessions.lock().unwrap().remove(id)
get_session(m, id) ==
    [m |-> [m EXCEPT !.sessions = [i \in (DOMAIN @) \ {id} |-> @[i]]],
     val |-> IF id \in DOMAIN m.sessions THEN Some(m.sessions[id]) ELSE None]

\* remove_session
remove_session(m, id) == [m EXCEPT !.sessions = [i \in (DOMAIN @) \ {id} |-> @[i]]]

\* list_sessions: the client_info of every registered session (the Vec's
\* order is the HashMap's)
list_sessions(m) == {m.sessions[i].client_info : i \in DOMAIN m.sessions}

\* cleanup_inactive_sessions: retain the sessions younger than timeout
cleanup_inactive_sessions(m, timeout) ==
    [m EXCEPT !.sessions =
        [i \in {j \in DOMAIN @ : m.now - @[j].client_info.connected_at < timeout} |-> @[i]]]

NoMgrCall == [op |-> "none", id |-> 0, res |-> "Ok", val |-> None]

\* SessionManager::new
MgrInit ==
    /\ mgr = [sessions |-> <<>>, now |-> 0, made |-> 0]
    /\ mlast = NoMgrCall

Init == HsInit /\ CodecInit /\ KexInit /\ AeadInit /\ CsInit /\ RouteInit /\ MgrInit

Next ==
    \/ \E s \in Sessions, i \in BOOLEAN, f \in BOOLEAN : NewSession(s, i, f)
    \/ \E s \in Sessions, f \in Faults : CreateInitiation(s, f)
    \/ \E s \in Sessions, m \in Deliverable, f \in Faults, e \in BOOLEAN : ProcessInitiation(s, m, f, e)
    \/ \E s \in Sessions, m \in Deliverable, e \in BOOLEAN : ProcessResponse(s, m, e)

Spec == Init /\ [][Next]_vars

\* Dropping a Handshake: the struct has no Drop implementation, so the
\* buffers of its Vec<u8> fields are released with the bytes they hold.  A
\* dropped session is what is left in the released memory.
drop(h) == [h EXCEPT !.state = "Dropped"]

\* The owner drops session s, at any point of its life
Drop(s) ==
    /\ Running
    /\ Live(s)
    /\ sess' = [sess EXCEPT ![s] = drop(@)]
    /\ last' = [NoCall EXCEPT !.op = "drop", !.sid = s, !.pre = sess[s]]
    /\ UNCHANGED <<hist, net, rng, codecVars, kexVars, aeadVars, srvVars>>

DropNext ==
    \/ Next
    \/ \E s \in Sessions : Drop(s)

DropSpec == Init /\ [][DropNext]_vars

----------------------------------------------------------------------------
(* The codec as a state machine: messages are built with                   *)
(* HandshakeMessage::new or come out of deserialize, buffers come out of   *)
(* serialize or off the wire.  Building a message or receiving a buffer    *)
(* starts afresh: it forgets the buffer, message and call before it.       *)

MaxSeed == 1

MessageTypes == {1, 2}
\* (TLC's integers end at 2^31 - 1: the model's sender_index values and wire
\* bytes 4..8 stay below 2^31)
SenderIndexes == {0, 1, 258, 2147483647}
\* ephemeral_public lengths: the reference size, the sizes that bring the
\* frame to 1232 and 1233 bytes, the Kyber768 key, none
EphemeralLens == {ephemeral_size, ephemeral_size + 64, ephemeral_size + 65, EphPkLen, 0}
\* buffer lengths off the wire
WireLens == {0, 1168, HANDSHAKE_MESSAGE_SIZE - 1, HANDSHAKE_MESSAGE_SIZE, HANDSHAKE_MESSAGE_SIZE + 1}

Build(t, i, el, seed) ==
    /\ cmsg' = Some(NewMessage(t, i, Pattern(seed, el), Pattern(seed + 1, static_size),
                               Fill(TIMESTAMP_SIZE, 0)))
    /\ cbuf' = None
    /\ cres' = NoCodecCall
    /\ UNCHANGED <<hsVars, kexVars, aeadVars, srvVars>>

Serialize ==
    /\ IsSome(cmsg)
    /\ LET r == serialize(Unwrap(cmsg))
       IN  /\ cres' = [op |-> "serialize", msg |-> cmsg, bytes |-> r.val, of |-> None,
                       ok |-> r.ok, err |-> r.err]
           /\ cbuf' = IF r.ok THEN Some([bytes |-> r.val, of |-> cmsg]) ELSE cbuf
    /\ UNCHANGED <<cmsg, hsVars, kexVars, aeadVars, srvVars>>

Receive(n, seed) ==
    /\ cbuf' = Some([bytes |-> Pattern(seed, n), of |-> None])
    /\ cmsg' = None
    /\ cres' = NoCodecCall
    /\ UNCHANGED <<hsVars, kexVars, aeadVars, srvVars>>

Deserialize ==
    /\ IsSome(cbuf)
    /\ LET b == Unwrap(cbuf)
           r == deserialize(b.bytes)
       IN  /\ cres' = [op |-> "deserialize", msg |-> IF r.ok THEN Some(r.val) ELSE None,
                       bytes |-> b.bytes, of |-> b.of, ok |-> r.ok, err |-> r.err]
           /\ cmsg' = IF r.ok THEN Some(r.val) ELSE cmsg
    /\ UNCHANGED <<cbuf, hsVars, kexVars, aeadVars, srvVars>>

CodecNext ==
    \/ \E t \in MessageTypes, i \in SenderIndexes, el \in EphemeralLens, seed \in 0..MaxSeed :
           Build(t, i, el, seed)
    \/ Serialize
    \/ \E n \in WireLens, seed \in 0..MaxSeed : Receive(n, seed)
    \/ Deserialize

CodecSpec == Init /\ [][CodecNext]_vars

----------------------------------------------------------------------------
(* Properties of the handshake state machine *)

HandshakeOps == {"create_initiation", "process_initiation", "process_response"}

IsCall == last.op \in HandshakeOps

\* The operation of the last call does not match the state it was called in
StateMismatch ==
    \/ last.op \in {"create_initiation", "process_response"} /\ last.pre.state # "InitiatorStart"
    \/ last.op = "process_initiation" /\ last.pre.state # "ResponderStart"

\* A session as Handshake::new leaves it
Fresh(h, state) ==
    h.state = state /\ h.ephemeral_private = None /\ h.shared_secret = None

\* C1: after I.create_initiation, R.process_initiation(m1) and
\* I.process_response(m2) on unmodified messages (and no provider fault),
\* all three calls succeed, both secrets are byte-equal with length
\* len(ss_static) + len(ss_ephemeral), I is InitiatorFinished and R is
\* ResponderFinished.
C1_HandshakeRoundTrip ==
    /\ (last.op = "create_initiation" /\ Fresh(last.pre, "InitiatorStart") /\ last.fault = 0)
         => last.res = "Ok"
    /\ \A i \in Sessions :
         (/\ last.op = "process_initiation"
          /\ Fresh(last.pre, "ResponderStart")
          /\ last.fault = 0
          /\ sess[i].state = "InitiatorStart" /\ ~hist[i].failed
          /\ IsSome(hist[i].sent) /\ last.msg = hist[i].sent)
         => last.res = "Ok"
    /\ \A i, r \in Sessions :
         (/\ last.op = "process_response" /\ last.sid = i
          /\ ~hist[i].failed /\ ~hist[r].failed
          /\ sess[r].state = "ResponderFinished"
          /\ IsSome(hist[i].sent) /\ hist[r].accepted = hist[i].sent
          /\ last.msg = hist[r].sent)
         => /\ last.res = "Ok"
            /\ sess[i].state = "InitiatorFinished"
            /\ get_shared_secret(sess[i]) = get_shared_secret(sess[r])
            /\ ByteLen(Unwrap(get_shared_secret(sess[i]))) = StaticSsLen + EphSsLen
            /\ ByteLen(Unwrap(get_shared_secret(sess[r]))) = StaticSsLen + EphSsLen

C3_MismatchIsInvalidState ==
    (IsCall /\ StateMismatch) => (last.res = "Err" /\ last.err = "InvalidState")

\* C4: after any operation on a session has returned an error, every later
\* operation on that session returns InvalidState.
C4_PoisonedAfterError ==
    [][\A s \in Sessions :
          (hist[s].failed /\ last'.sid = s /\ last' # last) =>
              (last'.res = "Err" /\ last'.err = "InvalidState")]_vars

\* C5: a session is InitiatorFinished (process_response has succeeded) only
\* after a create_initiation on it has succeeded; a message of type 2 is
\* only ever returned by a process_initiation call of a responder that
\* consumed a message.
C5_Ordering ==
    /\ \A s \in Sessions : sess[s].state = "InitiatorFinished" => hist[s].initiated
    /\ (last.op = "process_response" /\ last.res = "Ok") => hist[last.sid].initiated
    /\ \A m \in net :
         m.message_type = 2 =>
             \E s \in Sessions : /\ sess[s].state = "ResponderFinished"
                                 /\ hist[s].sent = Some(m)
                                 /\ IsSome(hist[s].accepted)
    /\ (IsCall /\ last.res = "Ok" /\ IsSome(last.out) /\ Unwrap(last.out).message_type = 2)
         => (last.op = "process_initiation" /\ IsSome(last.msg) /\ last.pre.state = "ResponderStart")

C5_Witness ==
    /\ last.op = "process_response" /\ last.res = "Ok"
    /\ sess[last.sid].state = "InitiatorFinished"
    /\ \E m \in net : m.message_type = 2

----------------------------------------------------------------------------
(* The key exchange as a state machine: one KeyExchange, a caller that     *)
(* keeps the last key pair and the last encapsulation, and calls with      *)
(* those values or with malformed ones.                                    *)

KemModes == {"PqcOnly", "Hybrid", "Classical"}

KexRunning == klast.res # "Panic"

KexNew(mode) ==
    /\ kex.mode = "Unset"
    /\ kex' = [kex EXCEPT !.mode = mode]
    /\ UNCHANGED <<krng, klast, hsVars, codecVars, aeadVars, srvVars>>

KexGenerate(fault) ==
    /\ KexRunning
    /\ kex.mode \in KemModes
    /\ krng + 2 <= MaxKexRng
    /\ LET o == generate_keypair(kex.mode, krng, fault)
       IN  /\ kex' = IF o.res = "Ok" THEN [kex EXCEPT !.pair = Some(o.val)] ELSE kex
           /\ krng' = krng + o.draws
           /\ klast' = [NoKexCall EXCEPT !.op = "generate_keypair", !.fault = fault,
                                         !.res = o.res, !.err = o.err, !.val = o.val]
    /\ UNCHANGED <<hsVars, codecVars, aeadVars, srvVars>>

\* Keys a caller may pass to encapsulate
PeerKeys ==
    (IF IsSome(kex.pair) THEN {Unwrap(kex.pair)[1], Unwrap(kex.pair)[2]} ELSE {})
        \cup {<<Junk(0, 16)>>, <<Junk(0, X25519_LEN)>>}

KexEncapsulate(peer_pk, fault) ==
    /\ KexRunning
    /\ kex.mode \in KemModes
    /\ krng + 2 <= MaxKexRng
    /\ LET o == encapsulate(kex.mode, peer_pk, krng, fault)
       IN  /\ kex' = IF o.res = "Ok"
                     THEN [kex EXCEPT !.enc = Some(o.val), !.encFor = Some(peer_pk)]
                     ELSE kex
           /\ krng' = krng + o.draws
           /\ klast' = [NoKexCall EXCEPT !.op = "encapsulate", !.in1 = peer_pk, !.fault = fault,
                                         !.res = o.res, !.err = o.err, !.val = o.val]
    /\ UNCHANGED <<hsVars, codecVars, aeadVars, srvVars>>

\* Ciphertexts and secret keys a caller may pass to decapsulate
Ciphertexts ==
    (IF IsSome(kex.enc) THEN {Unwrap(kex.enc)[2]} ELSE {}) \cup {<<Junk(0, 16)>>, <<Junk(0, X25519_LEN)>>}
SecretKeys ==
    (IF IsSome(kex.pair) THEN {Unwrap(kex.pair)[1], Unwrap(kex.pair)[2]} ELSE {})
        \cup {<<Junk(0, 16)>>}

KexDecapsulate(ciphertext, secret_key, rejErr) ==
    /\ KexRunning
    /\ kex.mode \in KemModes
    /\ LET o == decapsulate(kex.mode, ciphertext, secret_key, rejErr)
       IN  klast' = [NoKexCall EXCEPT !.op = "decapsulate", !.in1 = ciphertext, !.in2 = secret_key,
                                      !.rejErr = rejErr, !.res = o.res, !.err = o.err, !.val = o.val]
    /\ UNCHANGED <<kex, krng, hsVars, codecVars, aeadVars, srvVars>>

KexNext ==
    \/ \E mode \in KemModes : KexNew(mode)
    \/ \E f \in 0..1 : KexGenerate(f)
    \/ \E pk \in PeerKeys, f \in 0..1 : KexEncapsulate(pk, f)
    \/ \E ct \in Ciphertexts, sk \in SecretKeys, e \in BOOLEAN : KexDecapsulate(ct, sk, e)

KexSpec == Init /\ [][KexNext]_vars

----------------------------------------------------------------------------
(* The AEAD as a state machine: a caller constructs a ChaChaPolyAead,      *)
(* encrypts, and decrypts its last ciphertext or a damaged one, under the  *)
(* same or another nonce and associated data.                              *)

AeadKeys ==
    {<<Junk(s, AEAD_KEY_SIZE)>> : s \in 0..MaxSeed}
        \cup {<<>>, <<Junk(0, AEAD_KEY_SIZE - 1)>>, <<Junk(0, AEAD_KEY_SIZE + 1)>>}
Nonces == {<<Junk(s, NONCE_SIZE)>> : s \in 0..MaxSeed} \cup {<<Junk(0, 8)>>}
Plaintexts == {<<>>, <<Junk(0, 5)>>, <<Junk(1, 64)>>}
Aads == {<<>>, <<Junk(0, 4)>>}

\* A ciphertext with a byte changed
Alter(ct) == <<[k |-> "tampered", of |-> ct, n |-> ByteLen(ct)]>>

AeadRunning == alast.res # "Panic"

AeadNew(key) ==
    /\ AeadRunning
    /\ LET o == ChaChaPolyAead_new(key)
       IN  /\ aead' = IF o.res = "Ok" THEN [aead EXCEPT !.cipher = Some(o.val)] ELSE aead
           /\ alast' = [NoAeadCall EXCEPT !.op = "new", !.key = key, !.res = o.res, !.err = o.err]
    /\ UNCHANGED <<hsVars, codecVars, kexVars, srvVars>>

AeadEncrypt(nonce, data, aad) ==
    /\ AeadRunning
    /\ IsSome(aead.cipher)
    /\ LET self == Unwrap(aead.cipher)
           o == encrypt(self, nonce, data, aad)
       IN  /\ aead' = IF o.res = "Ok"
                      THEN [aead EXCEPT !.sealed = Some([key |-> self.cipher, nonce |-> nonce,
                                                         msg |-> data, aad |-> aad, bytes |-> o.val])]
                      ELSE aead
           /\ alast' = [NoAeadCall EXCEPT !.op = "encrypt", !.key = self.cipher, !.nonce = nonce,
                                          !.data = data, !.aad = aad,
                                          !.res = o.res, !.err = o.err, !.val = o.val]
    /\ UNCHANGED <<hsVars, codecVars, kexVars, srvVars>>

\* What a caller may pass to decrypt
AeadCiphertexts ==
    (IF IsSome(aead.sealed) THEN {Unwrap(aead.sealed).bytes, Alter(Unwrap(aead.sealed).bytes)} ELSE {})
        \cup {<<Junk(0, 8)>>}

AeadDecrypt(nonce, data, aad) ==
    /\ AeadRunning
    /\ IsSome(aead.cipher)
    /\ LET self == Unwrap(aead.cipher)
           o == decrypt(self, nonce, data, aad)
       IN  alast' = [NoAeadCall EXCEPT !.op = "decrypt", !.key = self.cipher, !.nonce = nonce,
                                      !.data = data, !.aad = aad,
                                      !.res = o.res, !.err = o.err, !.val = o.val]
    /\ UNCHANGED <<aead, hsVars, codecVars, kexVars, srvVars>>

AeadNext ==
    \/ \E key \in AeadKeys : AeadNew(key)
    \/ \E n \in Nonces, p \in Plaintexts, a \in Aads : AeadEncrypt(n, p, a)
    \/ \E n \in Nonces, ct \in AeadCiphertexts, a \in Aads : AeadDecrypt(n, ct, a)

AeadSpec == Init /\ [][AeadNext]_vars

----------------------------------------------------------------------------
(* The data plane as a state machine: the two ends of a tunnel encrypt and *)
(* decrypt, in any order.                                                  *)

CsPlaintexts == {<<Junk(0, 5)>>, <<Junk(1, 64)>>}

\* What an end may be handed: a ciphertext the other end or itself sent, or
\* bytes from elsewhere
CsCiphertexts == {w.bytes : w \in cwire} \cup {<<Junk(0, 8)>>}

CsEncrypt(e, data) ==
    /\ cs[e].nonce_counter < MaxCalls
    /\ LET o == CryptoSession_encrypt(cs[e], data)
       IN  /\ cs' = [cs EXCEPT ![e] = o.self]
           /\ cwire' = cwire \cup {[ep |-> e, seq |-> cs[e].nonce_counter, key |-> cs[e].shared_key,
                                    nonce |-> o.nonce, bytes |-> o.val]}
           /\ clast' = [op |-> "encrypt", ep |-> e, nonce |-> o.nonce, data |-> data,
                        res |-> o.res, err |-> o.err, val |-> o.val]
    /\ UNCHANGED <<hsVars, codecVars, kexVars, aeadVars, routeVars, mgrVars>>

CsDecrypt(e, data) ==
    /\ cs[e].nonce_counter < MaxCalls
    /\ LET o == CryptoSession_decrypt(cs[e], data)
       IN  /\ cs' = [cs EXCEPT ![e] = o.self]
           /\ clast' = [op |-> "decrypt", ep |-> e, nonce |-> o.nonce, data |-> data,
                        res |-> o.res, err |-> o.err, val |-> o.val]
    /\ UNCHANGED <<cwire, hsVars, codecVars, kexVars, aeadVars, routeVars, mgrVars>>

CsNext ==
    \/ \E e \in Endpoints, d \in CsPlaintexts : CsEncrypt(e, d)
    \/ \E e \in Endpoints, d \in CsCiphertexts : CsDecrypt(e, d)

CsSpec == Init /\ [][CsNext]_vars

----------------------------------------------------------------------------
(* The routing table as a state machine *)

AddRoute(network, peer_key) ==
    /\ Cardinality((DOMAIN routes) \cup {network}) <= MaxRoutes
    /\ routes' = add_route(routes, network, peer_key)
    /\ rlast' = [NoRouteCall EXCEPT !.op = "add_route", !.network = Some(network), !.key = Some(peer_key)]
    /\ UNCHANGED <<hsVars, codecVars, kexVars, aeadVars, csVars, mgrVars>>

RemoveRoute(network) ==
    /\ LET o == remove_route(routes, network)
       IN  /\ routes' = o.table
           /\ rlast' = [NoRouteCall EXCEPT !.op = "remove_route", !.network = Some(network), !.val = o.val]
    /\ UNCHANGED <<hsVars, codecVars, kexVars, aeadVars, csVars, mgrVars>>

FindPeer(addr) ==
    /\ \E v \in find_peer(routes, addr) :
           rlast' = [NoRouteCall EXCEPT !.op = "find_peer", !.addr = Some(addr), !.val = v]
    /\ UNCHANGED <<routes, hsVars, codecVars, kexVars, aeadVars, csVars, mgrVars>>

RouteNext ==
    \/ \E n \in Networks, k \in RoutePeerKeys : AddRoute(n, k)
    \/ \E n \in Networks : RemoveRoute(n)
    \/ \E a \in Addrs : FindPeer(a)

RouteSpec == Init /\ [][RouteNext]_vars

----------------------------------------------------------------------------
(* The session manager as a state machine: connections register sessions,  *)
(* look them up for each binary message, remove them on close; the cleanup *)
(* task runs; time passes.                                                 *)

ClientIps == {"10.0.0.1", "10.0.0.2"}

CreateSession(ip, shared_key) ==
    /\ mgr.made < MaxIds
    /\ LET o == create_session(mgr, ip, shared_key)
       IN  /\ mgr' = o.m
           /\ mlast' = [op |-> "create_session", id |-> IF o.res = "Ok" THEN Unwrap(o.val) ELSE 0,
                        res |-> o.res, val |-> o.val]
    /\ UNCHANGED <<hsVars, codecVars, kexVars, aeadVars, csVars, routeVars>>

GetSession(id) ==
    /\ LET o == get_session(mgr, id)
       IN  /\ mgr' = o.m
           /\ mlast' = [op |-> "get_session", id |-> id, res |-> "Ok", val |-> o.val]
    /\ UNCHANGED <<hsVars, codecVars, kexVars, aeadVars, csVars, routeVars>>

RemoveSession(id) ==
    /\ mgr' = remove_session(mgr, id)
    /\ mlast' = [op |-> "remove_session", id |-> id, res |-> "Ok", val |-> None]
    /\ UNCHANGED <<hsVars, codecVars, kexVars, aeadVars, csVars, routeVars>>

ListSessions ==
    /\ mlast' = [op |-> "list_sessions", id |-> 0, res |-> "Ok", val |-> Some(list_sessions(mgr))]
    /\ UNCHANGED <<mgr, hsVars, codecVars, kexVars, aeadVars, csVars, routeVars>>

CleanupInactiveSessions(timeout) ==
    /\ mgr' = cleanup_inactive_sessions(mgr, timeout)
    /\ mlast' = [op |-> "cleanup_inactive_sessions", id |-> 0, res |-> "Ok", val |-> None]
    /\ UNCHANGED <<hsVars, codecVars, kexVars, aeadVars, csVars, routeVars>>

\* SystemTime::now() advances
Tick ==
    /\ mgr.now < MaxClock
    /\ mgr' = [mgr EXCEPT !.now = @ + 1]
    /\ UNCHANGED <<mlast, hsVars, codecVars, kexVars, aeadVars, csVars, routeVars>>

MgrNext ==
    \/ \E ip \in ClientIps, k \in {SharedKey, <<Junk(0, AES_KEY_SIZE - 1)>>} : CreateSession(ip, k)
    \/ \E id \in 1..MaxIds : GetSession(id)
    \/ \E id \in 1..MaxIds : RemoveSession(id)
    \/ ListSessions
    \/ \E t \in 1..MaxClock : CleanupInactiveSessions(t)
    \/ Tick

MgrSpec == Init /\ [][MgrNext]_vars

----------------------------------------------------------------------------
(* Properties of the wire codec *)

\* A message with the reference-binding field sizes
RefSized(m) ==
    /\ Len(m.ephemeral_public) = ephemeral_size
    /\ Len(m.static_ciphertext) = static_size
    /\ Len(m.timestamp) = TIMESTAMP_SIZE
    /\ Len(m.mac1) = MAC_SIZE
    /\ Len(m.mac2) = MAC_SIZE

\* C6: for every message with the reference-binding field sizes, serialize
\* succeeds and returns exactly 1232 bytes.
C6_SerializeIs1232Bytes ==
    (cres.op = "serialize" /\ RefSized(Unwrap(cres.msg)))
        => (cres.ok /\ Len(cres.bytes) = 1232)

\* C7: for every message m with the reference-binding field sizes,
\* deserialize(serialize(m)) succeeds and returns a message equal to m in
\* all seven fields.
C7_CodecRoundTrip ==
    (cres.op = "deserialize" /\ IsSome(cres.of) /\ RefSized(Unwrap(cres.of)))
        => (cres.ok /\ cres.msg = cres.of)

\* C8: deserialize returns InvalidMessageSize, and no message, for every
\* input whose length is not exactly 1232 bytes.
C8_DeserializeSizeRejection ==
    (cres.op = "deserialize" /\ Len(cres.bytes) # 1232)
        => (~cres.ok /\ cres.err = "InvalidMessageSize" /\ cres.msg = None)

C8_Witness ==
    /\ cres.op = "deserialize" /\ Len(cres.bytes) = 1231
    /\ ~cres.ok /\ cres.err = "InvalidMessageSize"

\* C9: serialize returns Ok only for a frame of exactly 1232 bytes; when the
\* assembled total is longer or shorter it fails with InvalidMessageSize.
C9_SerializeExactSize ==
    cres.op = "serialize" =>
        IF Len(Assemble(Unwrap(cres.msg))) = 1232
        THEN cres.ok
        ELSE ~cres.ok /\ cres.err = "InvalidMessageSize"

----------------------------------------------------------------------------
(* Properties of the key exchange *)

\* The caller follows (sk, pk) = generate_keypair(); (ss1, ct) =
\* encapsulate(pk); ss2 = decapsulate(ct, sk)
EncapsulatedToOwnKey ==
    IsSome(kex.pair) /\ IsSome(kex.enc) /\ kex.encFor = Some(Unwrap(kex.pair)[2])

\* C10: in every mode, generate_keypair, encapsulate(pk) and
\* decapsulate(ct, sk) succeed (the provider not failing) and ss1 = ss2.
C10_KexRoundTrip ==
    /\ (klast.op = "generate_keypair" /\ klast.fault = 0) => klast.res = "Ok"
    /\ (klast.op = "encapsulate" /\ klast.fault = 0
            /\ IsSome(kex.pair) /\ klast.in1 = Unwrap(kex.pair)[2])
         => klast.res = "Ok"
    /\ (klast.op = "decapsulate" /\ EncapsulatedToOwnKey
            /\ klast.in1 = Unwrap(kex.enc)[2] /\ klast.in2 = Unwrap(kex.pair)[1])
         => (klast.res = "Ok" /\ klast.val = Unwrap(kex.enc)[1])

\* The same round trip in the modes other than PqcOnly
KexRoundTripNotPqcOnly == kex.mode # "PqcOnly" => C10_KexRoundTrip

\* C11: in every mode generate_keypair returns (secret key, public key):
\* the second component is accepted by encapsulate, and the first
\* decapsulates what was encapsulated to the second.
C11_KeypairOrder ==
    (klast.op = "generate_keypair" /\ klast.res = "Ok") =>
        LET secret_key == klast.val[1]
            public_key == klast.val[2]
            enc == encapsulate(kex.mode, public_key, krng, 0)
        IN  /\ enc.res = "Ok"
            /\ decapsulate(kex.mode, enc.val[2], secret_key, FALSE) = KexOk(enc.val[1], 0)

\* C12: in Hybrid mode the public key is len(pk_pqc) + 32 bytes and the
\* secret key len(sk_pqc) + 32 bytes; a successful encapsulate returns a
\* ciphertext of len(ct_pqc) + 32 and a secret of len(ss_pqc) + 32 bytes; a
\* successful decapsulate returns a secret of len(ss_pqc) + 32 bytes.
C12_HybridLengths ==
    (kex.mode = "Hybrid" /\ klast.res = "Ok") =>
        /\ klast.op = "generate_keypair" =>
              /\ ByteLen(klast.val[1]) = StaticSkLen + 32
              /\ ByteLen(klast.val[2]) = StaticPkLen + 32
        /\ klast.op = "encapsulate" =>
              /\ ByteLen(klast.val[1]) = StaticSsLen + 32
              /\ ByteLen(klast.val[2]) = StaticCtLen + 32
        /\ klast.op = "decapsulate" => ByteLen(klast.val) = StaticSsLen + 32

C12_Witness ==
    /\ kex.mode = "Hybrid" /\ EncapsulatedToOwnKey
    /\ ByteLen(Unwrap(kex.pair)[2]) = StaticPkLen + 32
    /\ ByteLen(Unwrap(kex.enc)[2]) = StaticCtLen + 32
    /\ klast.op = "decapsulate" /\ klast.res = "Ok"
    /\ klast.in1 = Unwrap(kex.enc)[2] /\ klast.in2 = Unwrap(kex.pair)[1]
    /\ ByteLen(klast.val) = StaticSsLen + 32

\* A PQC string of one of the kinds pqc followed by an X25519 string of one
\* of the kinds x as the trailing 32 bytes
PqcThenX25519(bs, pqc, x) ==
    /\ Len(bs) = 2
    /\ bs[1].k \in pqc /\ bs[1].n = ByteLen(bs) - 32
    /\ bs[2].k \in x /\ bs[2].n = 32

\* C13: every hybrid string KeyExchange produces (public key, secret key,
\* ciphertext, shared secret) is the PQC part followed by the X25519 part as
\* its trailing 32 bytes, and Hybrid encapsulate and decapsulate take the PQC
\* operand from the front of each input and the X25519 operand from its
\* last 32 bytes.
C13_HybridLayout ==
    (kex.mode = "Hybrid" /\ klast.res = "Ok") =>
        /\ klast.op = "generate_keypair" =>
              /\ PqcThenX25519(klast.val[1], {"sk"}, {"xsk"})
              /\ PqcThenX25519(klast.val[2], {"pk"}, {"xpk"})
        /\ klast.op = "encapsulate" =>
              /\ PqcThenX25519(klast.val[1], {"ss"}, {"dh", "dhx"})
              /\ PqcThenX25519(klast.val[2], {"ct"}, {"xpk"})
              /\ PqcThenX25519(klast.in1, {"pk"}, {"xpk"}) =>
                    /\ klast.val[2][1].id = klast.in1[1].id
                    /\ klast.val[1][2].k = "dh"
                    /\ klast.in1[2].id \in klast.val[1][2].ids
        /\ klast.op = "decapsulate" =>
              /\ PqcThenX25519(klast.val, {"ss", "rej"}, {"dh", "dhx"})
              /\ (/\ PqcThenX25519(klast.in1, {"ct"}, {"xpk"})
                  /\ PqcThenX25519(klast.in2, {"sk"}, {"xsk"})
                  /\ klast.in1[1].id = klast.in2[1].id) =>
                    /\ klast.val[1] = Ss("static", klast.in1[1].id, klast.in1[1].r)
                    /\ klast.val[2].k = "dh"
                    /\ klast.val[2].ids = {klast.in2[2].id, klast.in1[2].id}

C13_Witness ==
    /\ kex.mode = "Hybrid" /\ EncapsulatedToOwnKey
    /\ PqcThenX25519(Unwrap(kex.pair)[1], {"sk"}, {"xsk"})
    /\ PqcThenX25519(Unwrap(kex.pair)[2], {"pk"}, {"xpk"})
    /\ PqcThenX25519(Unwrap(kex.enc)[2], {"ct"}, {"xpk"})
    /\ klast.op = "decapsulate" /\ klast.res = "Ok"
    /\ klast.in1 = Unwrap(kex.enc)[2] /\ klast.in2 = Unwrap(kex.pair)[1]
    /\ klast.val = Unwrap(kex.enc)[1]
    /\ PqcThenX25519(klast.val, {"ss"}, {"dh"})

\* The length of everything before the trailing 32 bytes
PqcPrefixLen(bs) == ByteLen(bs) - 32

\* C14: in Hybrid mode encapsulate with a peer key shorter than 32 bytes,
\* and decapsulate with a ciphertext or secret key shorter than 32 bytes,
\* return InvalidMode; so does an input whose PQC prefix does not have the
\* bound KEM's length.
C14_HybridMalformedIsInvalidMode ==
    kex.mode = "Hybrid" =>
        /\ (/\ klast.op = "encapsulate"
            /\ \/ ByteLen(klast.in1) < 32
               \/ PqcPrefixLen(klast.in1) # StaticPkLen)
             => (klast.res = "Err" /\ klast.err = "InvalidMode")
        /\ (/\ klast.op = "decapsulate"
            /\ \/ ByteLen(klast.in1) < 32
               \/ ByteLen(klast.in2) < 32
               \/ PqcPrefixLen(klast.in1) # StaticCtLen
               \/ PqcPrefixLen(klast.in2) # StaticSkLen)
             => (klast.res = "Err" /\ klast.err = "InvalidMode")

\* The lengths a mode requires of a public key, a secret key and a ciphertext
ModePkLen(mode) ==
    CASE mode = "PqcOnly" -> StaticPkLen
      [] mode = "Classical" -> 32
      [] mode = "Hybrid" -> StaticPkLen + 32
ModeSkLen(mode) ==
    CASE mode = "PqcOnly" -> StaticSkLen
      [] mode = "Classical" -> 32
      [] mode = "Hybrid" -> StaticSkLen + 32
ModeCtLen(mode) ==
    CASE mode = "PqcOnly" -> StaticCtLen
      [] mode = "Classical" -> 32
      [] mode = "Hybrid" -> StaticCtLen + 32

\* C15: in every mode, encapsulate and decapsulate with a key or ciphertext
\* whose length is not what the mode requires return InvalidMode, the error
\* of KeyExchange itself: the provider is not asked, so the result is
\* neither the provider's KemError nor a panic.
C15_WrongLengthIsInvalidMode ==
    kex.mode \in KemModes =>
        /\ (klast.op = "encapsulate" /\ ByteLen(klast.in1) # ModePkLen(kex.mode))
             => (klast.res = "Err" /\ klast.err = "InvalidMode")
        /\ (/\ klast.op = "decapsulate"
            /\ \/ ByteLen(klast.in1) # ModeCtLen(kex.mode)
               \/ ByteLen(klast.in2) # ModeSkLen(kex.mode))
             => (klast.res = "Err" /\ klast.err = "InvalidMode")

\* C16: the provider's encapsulate with a public key of the wrong length,
\* and its decapsulate with a ciphertext or secret key of the wrong length,
\* fail with InvalidKeySize (PqcOnly hands its arguments to the provider
\* and returns the provider's error).
C16_WrongLengthIsInvalidKeySize ==
    kex.mode = "PqcOnly" =>
        /\ (klast.op = "encapsulate" /\ ByteLen(klast.in1) # PkLen("static"))
             => (klast.res = "Err" /\ klast.err = "InvalidKeySize")
        /\ (klast.op = "decapsulate" /\ ~KemSized("static", klast.in1, klast.in2))
             => (klast.res = "Err" /\ klast.err = "InvalidKeySize")

----------------------------------------------------------------------------
(* Properties of the sessions' secrets *)

\* Nothing, or zero bytes only
Zeroed(o) == o = None \/ \A i \in 1..Len(Unwrap(o)) : Unwrap(o)[i].k = "zero"

\* C17: when a session is dropped, at any point, its ephemeral private key
\* and its partial or final shared secret are overwritten with zeros before
\* the memory is released.
C17_ZeroedOnDrop ==
    \A s \in Sessions :
        sess[s].state = "Dropped" =>
            /\ Zeroed(sess[s].ephemeral_private)
            /\ Zeroed(sess[s].shared_secret)

\* The call c made on its session when the provider has handed out r values
CallOutcome(c, r) ==
    CASE c.op = "create_initiation" -> create_initiation(c.pre, c.fault, r)
      [] c.op = "process_initiation" -> process_initiation(c.pre, Unwrap(c.msg), c.fault, c.rejErr, r)
      [] c.op = "process_response" -> process_response(c.pre, Unwrap(c.msg), c.rejErr)

C19_NoSecretBeforeSuccess ==
    \A s \in Sessions :
        (~hist[s].initiated /\ hist[s].sent = None) => get_shared_secret(sess[s]) = None

C19_Witness ==
    \E s \in Sessions :
        /\ hist[s].failed /\ ~hist[s].initiated /\ hist[s].sent = None
        /\ last.sid = s /\ last.op \in {"create_initiation", "process_initiation"}
        /\ last.res = "Err" /\ last.err = "KemError"
        /\ IsSome(sess[s].ephemeral_private)
        /\ get_shared_secret(sess[s]) = None

IsPrefix(a, b) == Len(a) <= Len(b) /\ SubSeq(b, 1, Len(a)) = a

\* C20: once a session's shared secret is set, every later operation leaves
\* it unchanged or extends it, the earlier value being a prefix of the
\* later; a successful process_response extends it by exactly
\* ephemeral_ss_len bytes.
C20_AppendOnly ==
    [][/\ \A s \in Sessions :
             IsSome(sess[s].shared_secret) =>
                 /\ IsSome(sess'[s].shared_secret)
                 /\ IsPrefix(Unwrap(sess[s].shared_secret), Unwrap(sess'[s].shared_secret))
       /\ (last' # last /\ last'.op = "process_response" /\ last'.res = "Ok") =>
             /\ IsSome(last'.pre.shared_secret)
             /\ ByteLen(Unwrap(sess'[last'.sid].shared_secret))
                    = ByteLen(Unwrap(last'.pre.shared_secret)) + EphSsLen]_vars

----------------------------------------------------------------------------
(* Properties of the messages the handshake returns *)

\* C21: every message create_initiation returns has message_type 1 and
\* sender_index 0, every message process_initiation returns has
\* message_type 2 and sender_index 1; both carry a 12-byte all-zero
\* timestamp and 32-byte all-zero mac1 and mac2; and the bytes serialize
\* assembles for them have three zero bytes in the reserved gap.
C21_MessageHeaders ==
    /\ (IsCall /\ last.res = "Ok" /\ IsSome(last.out)) =>
          LET m == Unwrap(last.out)
          IN  /\ last.op \in {"create_initiation", "process_initiation"}
              /\ last.op = "create_initiation" => (m.message_type = 1 /\ m.sender_index = 0)
              /\ last.op = "process_initiation" => (m.message_type = 2 /\ m.sender_index = 1)
    /\ \A m \in net :
          /\ m.timestamp = <<Zeros(12)>>
          /\ m.mac1 = <<Zeros(32)>>
          /\ m.mac2 = <<Zeros(32)>>
          /\ Assemble(m)[1] = m.message_type
          /\ SubSeq(Assemble(m), 2, 4) = <<0, 0, 0>>

C21_Witness ==
    /\ last.op = "process_initiation" /\ last.res = "Ok"
    /\ Unwrap(last.out).message_type = 2 /\ Unwrap(last.out).sender_index = 1
    /\ Unwrap(last.out).mac1 = <<Zeros(32)>>
    /\ \E m \in net : m.message_type = 1 /\ m.sender_index = 0 /\ m.timestamp = <<Zeros(12)>>

C22_InitiationLayout ==
    (/\ cres.op = "serialize"
     /\ Unwrap(cres.msg).message_type = 1
     /\ RefSized(Unwrap(cres.msg)))
    => LET m == Unwrap(cres.msg)
           b == cres.bytes
           e == 8 + Len(m.ephemeral_public)
           c == e + Len(m.static_ciphertext)
           t == c + Len(m.timestamp)
       IN  /\ cres.ok
           /\ b[1] = 1
           /\ SubSeq(b, 2, 4) = <<0, 0, 0>>
           /\ b[5] + 256 * b[6] + 65536 * b[7] + 16777216 * b[8] = m.sender_index
           /\ m.sender_index = 0 => SubSeq(b, 5, 8) = <<0, 0, 0, 0>>
           /\ SubSeq(b, 9, e) = m.ephemeral_public
           /\ SubSeq(b, e + 1, c) = m.static_ciphertext
           /\ SubSeq(b, c + 1, t) = m.timestamp
           /\ SubSeq(b, t + 1, t + 32) = m.mac1
           /\ Len(b) = 1232
           /\ SubSeq(b, 1201, 1232) = m.mac2

\* What of C22 does not depend on the frame being 1232 bytes long: the
\* header and the order of the fields, mac2 being the last 32 bytes
InitiationLayoutToMac1 ==
    (/\ cres.op = "serialize"
     /\ Unwrap(cres.msg).message_type = 1
     /\ RefSized(Unwrap(cres.msg)))
    => LET m == Unwrap(cres.msg)
           b == cres.bytes
       IN  /\ cres.ok
           /\ b[1] = 1
           /\ SubSeq(b, 2, 4) = <<0, 0, 0>>
           /\ b[5] + 256 * b[6] + 65536 * b[7] + 16777216 * b[8] = m.sender_index
           /\ SubSeq(b, 9, 904) = m.ephemeral_public
           /\ SubSeq(b, 905, 1092) = m.static_ciphertext
           /\ SubSeq(b, 1093, 1104) = m.timestamp
           /\ SubSeq(b, 1105, 1136) = m.mac1
           /\ SubSeq(b, 1137, Len(b)) = m.mac2
           /\ Len(b) = 1168

----------------------------------------------------------------------------
(* Properties of the AEAD *)

\* C24: ChaChaPolyAead::new returns InvalidKeySize for every key that is
\* not 32 bytes long (31 bytes, say), and a cipher for every 32-byte key.
C24_AeadKeySize ==
    alast.op = "new" =>
        IF ByteLen(alast.key) = 32
        THEN alast.res = "Ok" /\ aead.cipher = Some([cipher |-> alast.key])
        ELSE alast.res = "Err" /\ alast.err = "InvalidKeySize"

C24_Witness ==
    /\ alast.op = "new" /\ ByteLen(alast.key) = 31
    /\ alast.res = "Err" /\ alast.err = "InvalidKeySize"
    /\ IsSome(aead.cipher) /\ ByteLen(Unwrap(aead.cipher).cipher) = 32

\* decrypt is called with the cipher, nonce and associated data of the
\* caller's last encryption
SameCipherNonceAad ==
    /\ alast.op = "decrypt" /\ IsSome(aead.sealed)
    /\ alast.key = Unwrap(aead.sealed).key
    /\ alast.nonce = Unwrap(aead.sealed).nonce
    /\ alast.aad = Unwrap(aead.sealed).aad

\* C25: for any key, nonce n, plaintext p and associated data a,
\* decrypt(n, encrypt(n, p, a), a) returns p; decrypt of that ciphertext
\* with a byte altered returns the decryption error and no plaintext.
C25_AeadRoundTrip ==
    /\ (SameCipherNonceAad /\ alast.data = Unwrap(aead.sealed).bytes)
         => (alast.res = "Ok" /\ alast.val = Unwrap(aead.sealed).msg)
    /\ (SameCipherNonceAad /\ alast.data = Alter(Unwrap(aead.sealed).bytes))
         => (alast.res = "Err" /\ alast.err = "DecryptionError" /\ alast.val = <<>>)
    /\ (alast.op = "encrypt" /\ ByteLen(alast.nonce) = 12) =>
          /\ alast.res = "Ok"
          /\ decrypt([cipher |-> alast.key], alast.nonce, alast.val, alast.aad) = AeadOk(alast.data)
          /\ decrypt([cipher |-> alast.key], alast.nonce, Alter(alast.val), alast.aad)
                 = AeadErr("DecryptionError")

C25_Witness ==
    /\ SameCipherNonceAad
    /\ alast.data = Alter(Unwrap(aead.sealed).bytes)
    /\ Unwrap(aead.sealed).msg # <<>> /\ Unwrap(aead.sealed).aad # <<>>
    /\ alast.res = "Err" /\ alast.err = "DecryptionError"

----------------------------------------------------------------------------
(* Properties of the three handshake steps *)

\* C26: the static_ciphertext create_initiation puts in message 1 is an
\* encapsulation against the responder's static public key: the responder
\* that receives the message unmodified decapsulates it with its own static
\* secret key to the ss_static the initiator stored as its secret.
C26_StaticSecretAgreed ==
    \A i \in Sessions :
        (/\ last.op = "process_initiation" /\ last.pre.state = "ResponderStart"
         /\ sess[i].state = "InitiatorStart" /\ ~hist[i].failed
         /\ IsSome(hist[i].sent) /\ last.msg = hist[i].sent)
        => LET dec == decapsulate_static(Unwrap(last.msg).static_ciphertext,
                                         last.pre.static_private, last.rejErr)
           IN  /\ dec.ok
               /\ Some(dec.val) = get_shared_secret(sess[i])

\* The key pair is one no session holds and no earlier message carries
FreshEphemeral(s, out) ==
    /\ IsKeyOf("eph", out.ephemeral_public, "pk")
    /\ sess[s].ephemeral_private = Some(<<Sk("eph", out.ephemeral_public[1].id)>>)
    /\ sess[s].ephemeral_private # last.pre.ephemeral_private
    /\ \A t \in Sessions \ {s} : sess[t].ephemeral_private # sess[s].ephemeral_private
    /\ \A m \in net \ {out} : m.ephemeral_public # out.ephemeral_public

\* C27: a successful process_initiation sets the responder's secret to
\* decapsulate_static(msg.static_ciphertext, own static secret key)
\* followed by the secret of encapsulate_ephemeral(msg.ephemeral_public),
\* moves the state from ResponderStart to ResponderFinished, and returns a
\* response whose static_ciphertext is the ciphertext of that encapsulation
\* and whose ephemeral_public is a freshly generated ephemeral public key.
C27_ProcessInitiationEffect ==
    (last.op = "process_initiation" /\ last.res = "Ok") =>
        LET h == sess[last.sid]
            msg == Unwrap(last.msg)
            out == Unwrap(last.out)
            ss_static == decapsulate_static(msg.static_ciphertext, last.pre.static_private, last.rejErr)
            enc == encapsulate_ephemeral(msg.ephemeral_public, rng, FALSE)
        IN  /\ last.pre.state = "ResponderStart" /\ h.state = "ResponderFinished"
            /\ ss_static.ok /\ enc.ok
            /\ get_shared_secret(h) = Some(ss_static.val \o enc.val[1])
            /\ ByteLen(Unwrap(get_shared_secret(h))) = StaticSsLen + EphSsLen
            /\ out.static_ciphertext = enc.val[2]
            /\ FreshEphemeral(last.sid, out)

C27_Witness ==
    \E i \in Sessions :
        /\ last.op = "process_initiation" /\ last.res = "Ok"
        /\ last.msg = hist[i].sent /\ hist[i].initiated
        /\ sess[last.sid].state = "ResponderFinished"
        /\ Len(Unwrap(get_shared_secret(sess[last.sid]))) = 2
        /\ Unwrap(get_shared_secret(sess[last.sid]))[2].k = "ss"
        /\ Unwrap(last.out).static_ciphertext[1].k = "ct"

C29_CreateInitiationEffect ==
    (last.op = "create_initiation" /\ last.res = "Ok") =>
        LET h == sess[last.sid]
            out == Unwrap(last.out)
            enc == encapsulate_static(last.pre.static_public, rng, FALSE)
        IN  /\ last.pre.state = "InitiatorStart" /\ h.state = "InitiatorStart"
            /\ FreshEphemeral(last.sid, out)
            /\ enc.ok
            /\ get_shared_secret(h) = Some(enc.val[1])
            /\ out.static_ciphertext = enc.val[2]
            /\ ByteLen(Unwrap(get_shared_secret(h))) = StaticSsLen

C29_Witness ==
    /\ last.op = "create_initiation" /\ last.res = "Ok"
    /\ IsSome(last.pre.shared_secret) /\ IsSome(last.pre.ephemeral_private)
    /\ sess[last.sid].state = "InitiatorStart"
    /\ ByteLen(Unwrap(get_shared_secret(sess[last.sid]))) = StaticSsLen

\* C30: the only state changes of a session are InitiatorStart to
\* InitiatorFinished, by a successful process_response, and ResponderStart
\* to ResponderFinished, by a successful process_initiation: a session
\* constructed as initiator is never in a Responder state and vice versa,
\* and nothing moves a session out of a Finished state.
C30_StateChanges ==
    [][\A s \in Sessions :
          sess'[s].state # sess[s].state =>
              \/ /\ sess[s].state = "Absent"
                 /\ sess'[s].state \in {"InitiatorStart", "ResponderStart"}
                 /\ last'.op = "new" /\ last'.sid = s /\ last'.res = "Ok"
              \/ /\ sess[s].state = "InitiatorStart" /\ sess'[s].state = "InitiatorFinished"
                 /\ last'.op = "process_response" /\ last'.sid = s /\ last'.res = "Ok"
              \/ /\ sess[s].state = "ResponderStart" /\ sess'[s].state = "ResponderFinished"
                 /\ last'.op = "process_initiation" /\ last'.sid = s /\ last'.res = "Ok"]_vars

C30_Witness ==
    /\ \E i, r \in Sessions : sess[i].state = "InitiatorFinished" /\ sess[r].state = "ResponderFinished"
    /\ last.op = "process_response" /\ last.pre.state = "ResponderFinished"
    /\ last.res = "Err" /\ sess[last.sid].state = "ResponderFinished"

----------------------------------------------------------------------------
(* Properties of failing and repeated handshake calls *)

\* C33: every call of create_initiation, process_initiation or
\* process_response returns Ok or Err, for every reachable session state and
\* every message: none of them aborts the program.  In particular
\* process_response on an initiator session on which create_initiation has
\* not yet run returns an error.
C33_NoAbort ==
    /\ IsCall => last.res \in {"Ok", "Err"}
    /\ (last.op = "process_response" /\ Fresh(last.pre, "InitiatorStart")) => last.res = "Err"

\* C34: a handshake operation that returns an error leaves the session
\* exactly as it was before the call: state, stored ephemeral private key
\* and shared secret are unchanged, whichever step inside the operation
\* failed.
C34_ErrorLeavesSession ==
    (IsCall /\ last.res = "Err") =>
        /\ sess[last.sid] = last.pre
        /\ sess[last.sid].state = last.pre.state
        /\ sess[last.sid].ephemeral_private = last.pre.ephemeral_private
        /\ sess[last.sid].shared_secret = last.pre.shared_secret

\* C35: between a successful create_initiation and the process_response
\* that consumes its reply, the session's retained ephemeral private key and
\* running ss_static are never replaced: a second create_initiation on the
\* same session does not succeed.
C35_InitiationRetained ==
    [][\A s \in Sessions :
          (hist[s].initiated /\ sess[s].state = "InitiatorStart") =>
              /\ (last' # last /\ last'.op = "create_initiation" /\ last'.sid = s)
                     => last'.res = "Err"
              /\ \/ /\ sess'[s].ephemeral_private = sess[s].ephemeral_private
                    /\ sess'[s].shared_secret = sess[s].shared_secret
                 \/ last'.op = "process_response" /\ last'.sid = s /\ last'.res = "Ok"]_vars

----------------------------------------------------------------------------
(* Messages whose type byte does not match their content *)

\* A message with the other message_type: HandshakeMessage::new takes any
\* type with any fields, and no MAC covers the type byte in transit
Relabel(m) == [m EXCEPT !.message_type = IF @ = 1 THEN 2 ELSE 1]

Relabelled == {Relabel(m) : m \in net}

RelabelNext ==
    \/ Next
    \/ \E s \in Sessions, m \in Relabelled, e \in BOOLEAN : ProcessInitiation(s, m, 0, e)
    \/ \E s \in Sessions, m \in Relabelled, e \in BOOLEAN : ProcessResponse(s, m, e)

RelabelSpec == Init /\ [][RelabelNext]_vars

\* C36: process_initiation succeeds only on a message whose message_type is
\* 1 and process_response only on a message whose message_type is 2; a
\* message of the other type is rejected with an error and leaves the
\* session unchanged.
C36_TypeChecked ==
    /\ (last.op = "process_initiation" /\ Unwrap(last.msg).message_type # 1)
           => (last.res = "Err" /\ sess[last.sid] = last.pre)
    /\ (last.op = "process_response" /\ Unwrap(last.msg).message_type # 2)
           => (last.res = "Err" /\ sess[last.sid] = last.pre)

\* The example of C36, which holds: a message a session returned, fed
\* unaltered to the operation of the other type, is rejected and leaves the
\* session unchanged unless the call aborts
UnalteredOtherTypeRejected ==
    (/\ last.op \in {"process_initiation", "process_response"}
     /\ Unwrap(last.msg) \in net
     /\ Unwrap(last.msg).message_type # (IF last.op = "process_initiation" THEN 1 ELSE 2)
     /\ last.res # "Panic")
        => (last.res = "Err" /\ sess[last.sid] = last.pre)

----------------------------------------------------------------------------
(* Properties of the bytes deserialize reads *)

RECURSIVE SumSeq(_)
SumSeq(ws) == IF ws = <<>> THEN 0 ELSE Head(ws) + SumSeq(Tail(ws))

\* C37: deserialize accounts for every byte of an accepted frame: the field
\* widths it reads sum to the 1232 bytes it requires, so it succeeds on every
\* 1232-byte input, mac2 is the last 32 bytes of the input, and no byte
\* after the 3-byte reserved gap is ignored.
C37_DeserializeCoversFrame ==
    (cres.op = "deserialize" /\ Len(cres.bytes) = HANDSHAKE_MESSAGE_SIZE) =>
        /\ cres.ok
        /\ SumSeq(DeserializeReads) = HANDSHAKE_MESSAGE_SIZE
        /\ LET m == Unwrap(cres.msg)
               n == Len(cres.bytes)
           IN  /\ m.mac2 = SubSeq(cres.bytes, n - MAC_SIZE + 1, n)
               /\ SubSeq(cres.bytes, 1 + RESERVED_SIZE + 1, n)
                      = put_u32_le(m.sender_index) \o m.ephemeral_public \o m.static_ciphertext
                            \o m.timestamp \o m.mac1 \o m.mac2

\* The part of C37 that holds: every 1232-byte input is accepted
AcceptsEveryFrame ==
    (cres.op = "deserialize" /\ Len(cres.bytes) = HANDSHAKE_MESSAGE_SIZE) => cres.ok

----------------------------------------------------------------------------
(* Properties of the server's data plane, routing table and sessions *)

\* C31: for two CryptoSession endpoints created from the same shared key, no
\* two encrypt calls, on the same endpoint or on opposite endpoints, ever
\* use the same nonce under that key, for every interleaving of sends in
\* both directions.
C31_NonceUnique ==
    \A x, y \in cwire : (x # y /\ x.key = y.key) => x.nonce # y.nonce

\* The part of C31 that holds: the encrypt calls of one endpoint use
\* distinct nonces
NonceUniquePerEndpoint ==
    \A x, y \in cwire : (x # y /\ x.ep = y.ep) => x.nonce # y.nonce

\* What a longest-prefix match gives: the key of the route with the longest
\* prefix among those that contain addr
LongestPrefixPeer(table, addr) ==
    LET hits == {n \in DOMAIN table : contains(n, addr)}
    IN  IF hits = {} THEN {None}
        ELSE {Some(table[n]) : n \in {h \in hits : \A g \in hits : g.prefix <= h.prefix}}

\* C32: when several routes contain an address, find_peer returns the peer
\* key of the most specific (longest-prefix) network containing it,
\* independently of the order in which the routes were added; it returns
\* None exactly when no route contains the address.
C32_LongestPrefix ==
    rlast.op = "find_peer" =>
        /\ rlast.val \in LongestPrefixPeer(routes, Unwrap(rlast.addr))
        /\ rlast.val = None <=> ~(\E n \in DOMAIN routes : contains(n, Unwrap(rlast.addr)))

\* The part of C32 that holds: None exactly when no route contains the
\* address, and otherwise the key of a route that contains it
FindPeerSomeContaining ==
    rlast.op = "find_peer" =>
        /\ rlast.val = None <=> ~(\E n \in DOMAIN routes : contains(n, Unwrap(rlast.addr)))
        /\ IsSome(rlast.val) =>
               \E n \in DOMAIN routes : contains(n, Unwrap(rlast.addr)) /\ routes[n] = Unwrap(rlast.val)

\* C38: a session inserted by create_session stays registered until
\* remove_session(id) or cleanup_inactive_sessions removes it: get_session(id)
\* returns it on every call in between and does not change the set of
\* registered sessions (list_sessions gives the same result before and after
\* a get_session).
C38_GetSessionKeeps ==
    [][/\ \A id \in DOMAIN mgr.sessions :
             id \notin DOMAIN mgr'.sessions =>
                 \/ mlast'.op = "remove_session" /\ mlast'.id = id
                 \/ mlast'.op = "cleanup_inactive_sessions"
       /\ mlast'.op = "get_session" =>
             /\ list_sessions(mgr') = list_sessions(mgr)
             /\ mlast'.id \in DOMAIN mgr.sessions => mlast'.val = Some(mgr.sessions[mlast'.id])]_vars

\* The part of C38 that holds: get_session returns the registered session
GetSessionReturnsIt ==
    [][(mlast'.op = "get_session" /\ mlast'.id \in DOMAIN mgr.sessions)
          => mlast'.val = Some(mgr.sessions[mlast'.id])]_vars

====
